---- MODULE Spec2Model ----
(***************************************************************************)
(* Model of compactor2's Config::fetch_shard_id                            *)
(* (src/compactor2/src/config.rs, lines 76-123): the two-phase resolution  *)
(* of (topic_name, shard_index) into a ShardId through the catalog, each   *)
(* phase wrapped in Backoff::new(..).retry_all_errors(..).expect(..).      *)
(*                                                                         *)
(* The catalog (iox_catalog) and the retry loop (backoff crate) are        *)
(* collaborators whose code is not part of the sources at hand; they are   *)
(* modelled from the specification (sections 3, 4.1 and 6).                *)
(***************************************************************************)
EXTENDS Integers, Sequences, FiniteSets, TLC

\* ------------------------------------------------------------------ bounds
\* Largest number of failed attempts of one lookup phase that is explored.
MaxFailures == 2
\* Largest number of changes the outside world makes to the catalog.
MaxChanges == 1
\* Largest number of calls of fetch_shard_id one caller makes.
MaxCalls == 2

\* ------------------------------------------------------------ value universe
AllProcs == {"r1", "r2"}
Procs == {"r1"}

TopicNames == {"sensors", "ghost"}
TopicIds == {7, 8}
ShardIndexValues == {2, 99}
ShardIds == {42, 43}
ErrorKinds == {"transient", "permanent"}

\* Option<T>
None == [is_some |-> FALSE]
Some(x) == [is_some |-> TRUE, val |-> x]

\* ShardIndex::new(shard_index): the i32 wrapped in the ShardIndex newtype.
ShardIndex_new(i) == [shard_index |-> i]

TopicRecords == [id : TopicIds, name : TopicNames]
ShardRecords ==
    [id : ShardIds, topic_id : TopicIds,
     shard_index : {ShardIndex_new(i) : i \in ShardIndexValues}]

\* A catalog holds at most one topic per name and one shard per
\* (topic id, shard index).
CatalogOk(c) ==
    /\ \A a, b \in c.topics : a.name = b.name => a = b
    /\ \A a, b \in c.shards :
          (a.topic_id = b.topic_id /\ a.shard_index = b.shard_index) => a = b

\* The scenario of the specification: "sensors" -> 7, (7, 2) -> 42.
SensorsCatalog ==
    [topics |-> {[id |-> 7, name |-> "sensors"]},
     shards |-> {[id |-> 42, topic_id |-> 7, shard_index |-> ShardIndex_new(2)]}]

\* "sensors" -> 8 and "ghost" -> 7, each with a shard of index 2.
TwoTopicsCatalog ==
    [topics |-> {[id |-> 8, name |-> "sensors"], [id |-> 7, name |-> "ghost"]},
     shards |-> {[id |-> 43, topic_id |-> 8, shard_index |-> ShardIndex_new(2)],
                 [id |-> 42, topic_id |-> 7, shard_index |-> ShardIndex_new(2)]}]

\* No topic at all.
EmptyCatalog == [topics |-> {}, shards |-> {}]

\* "sensors" -> 7 with other shard ids, and a shard of another topic id.
OtherShardsCatalog ==
    [topics |-> {[id |-> 7, name |-> "sensors"]},
     shards |-> {[id |-> 43, topic_id |-> 7, shard_index |-> ShardIndex_new(2)],
                 [id |-> 42, topic_id |-> 7, shard_index |-> ShardIndex_new(99)],
                 [id |-> 42, topic_id |-> 8, shard_index |-> ShardIndex_new(2)]}]

\* The catalog contents the model explores.
Catalogs ==
    {SensorsCatalog, TwoTopicsCatalog, EmptyCatalog, OtherShardsCatalog}

\* BackoffConfig: initial delay, growth factor, maximum delay, optional cap.
Schedules ==
    { [init_backoff |-> 1, base |-> 2, max_backoff |-> 4, cap |-> None],
      [init_backoff |-> 1, base |-> 2, max_backoff |-> 4, cap |-> Some(1)] }

\* -------------------------------------------------------------------- state
VARIABLES
    catalog,        \* the remote catalog's contents
    changes,        \* how many times the catalog has been changed
    backoff_config, \* the BackoffConfig handed to every call
    pc,             \* where each caller's fetch_shard_id stands
    topic_name,     \* argument topic_name of the running call
    shard_index,    \* argument shard_index of the running call
    topic,          \* local `topic`: Option<TopicRecord> of phase 1
    backoff,        \* the Backoff instance of the running retry loop
    inflight,       \* the catalog request awaiting its answer, if any
    result,         \* how the call ended: returned id or panic message
    log,            \* the events of the running call, in order
    startVer,       \* value of `changes` when the running call began
    calls,          \* number of calls each caller has made
    prev,           \* the previous call of each caller, once it ended: its
                    \* arguments, its `topic`, its result, and `changes` at
                    \* its start
    lastErr,        \* kind of the error a retry loop is sleeping on, if any
    input,          \* the string handed to error_check
    verdict         \* what error_check returned for it, once it has run

errVars == <<input, verdict>>

vars == <<catalog, changes, backoff_config, pc, topic_name, shard_index, topic,
          backoff, inflight, result, log, startVer, calls, prev, lastErr,
          errVars>>

Terminal == {"returned", "panicked"}
NoResult == [kind |-> "none"]
NoCall == [kind |-> "none"]
NoRequest == [kind |-> "none"]

\* --------------------------------------------------------------- the catalog
\* topics().get_by_name(name): Ok(Option<TopicRecord>)
get_by_name(c, name) ==
    IF \E t \in c.topics : t.name = name
    THEN Some(CHOOSE t \in c.topics : t.name = name)
    ELSE None

\* shards().get_by_topic_id_and_shard_index(topic_id, shard_index)
get_by_topic_id_and_shard_index(c, topic_id, idx) ==
    IF \E s \in c.shards : s.topic_id = topic_id /\ s.shard_index = idx
    THEN Some(CHOOSE s \in c.shards : s.topic_id = topic_id /\ s.shard_index = idx)
    ELSE None

\* ------------------------------------------------------------ the retry loop
\* Backoff::new(&backoff_config): a fresh instance, at the initial delay.
Backoff_new(cfg) == [next_delay |-> cfg.init_backoff, failed |-> 0]

Min(a, b) == IF a < b THEN a ELSE b

\* The instance after one more failed attempt: the delay grows up to the
\* maximum delay.
Backoff_advance(b, cfg) ==
    [next_delay |-> Min(b.next_delay * cfg.base, cfg.max_backoff),
     failed |-> b.failed + 1]

\* A classification that retries only the errors known to be transient.
retry_only_transient(kind) == kind = "transient"

\* retry_all_errors: every error of the operation is classified retryable.
retry_all_errors(kind) == TRUE

\* A loop that gives up once the failed attempts have reached the cap of a
\* capped schedule.
GivesUpAtCap(b, cfg) == cfg.cap.is_some /\ b.failed >= cfg.cap.val

\* Whether the loop gives up after a failed attempt. The retrying invoker has
\* no attempt limit and no failure path, whatever the schedule holds.
GivesUp(b, cfg) == FALSE

\* -------------------------------------------------------------- fetch_shard_id
Event(ev, arg) == [ev |-> ev, arg |-> arg]

\* The request of the topic closure: get_by_name(topic_name.as_str()).
TopicRequest(p) == [kind |-> "topic", name |-> topic_name[p]]

\* A shard closure that reuses the topic id of the caller's previous call.
ShardRequestStale(p, t) ==
    [kind |-> "shard",
     topic_id |-> IF prev[p].kind = "call" /\ prev[p].topic.is_some
                  THEN prev[p].topic.val.id ELSE t.id,
     shard_index |-> ShardIndex_new(shard_index[p])]

\* The request of the shard closure, t being the local `topic`:
\* get_by_topic_id_and_shard_index(topic.id, ShardIndex::new(shard_index)).
ShardRequest(p, t) ==
    [kind |-> "shard", topic_id |-> t.id,
     shard_index |-> ShardIndex_new(shard_index[p])]

\* A missing topic reported with the diagnostic of the missing shard.
MissingTopicAsShard(p) ==
    [kind |-> "missing_shard", topic_name |-> topic_name[p],
     shard_index |-> shard_index[p]]

\* panic!("Topic {} not found", topic_name)
MissingTopic(p) ==
    [kind |-> "missing_topic", topic_name |-> topic_name[p]]

\* A missing shard reported with the diagnostic of the missing topic.
MissingShardAsTopic(p) ==
    [kind |-> "missing_topic", topic_name |-> topic_name[p]]

\* panic!("Topic {} and Shard Index {} not found", topic_name, shard_index)
MissingShard(p) ==
    [kind |-> "missing_shard", topic_name |-> topic_name[p],
     shard_index |-> shard_index[p]]

\* .expect("retry forever") on an Err of the retry loop.
RetryForeverPanic == [kind |-> "retry_forever"]

\* A return of a zero-value shard id.
ReturnedPlaceholder(shard) == [kind |-> "returned", id |-> 0]

\* A return of the wrong field of the shard record.
ReturnedTopicId(shard) == [kind |-> "returned", id |-> shard.topic_id]

\* Some(shard) => shard.id
Returned(shard) == [kind |-> "returned", id |-> shard.id]

\* A call that keeps the topic record of the caller's previous call for the
\* same name and skips its own topic lookup.
fetch_shard_id_cached(p, name, idx) ==
    /\ pc[p] \in {"idle"} \cup Terminal
    /\ calls[p] < MaxCalls
    /\ prev' = [prev EXCEPT ![p] =
                  IF pc[p] \in Terminal
                  THEN [kind |-> "call", topic_name |-> topic_name[p],
                        shard_index |-> shard_index[p], result |-> result[p],
                        topic |-> topic[p],
                        startVer |-> startVer[p]]
                  ELSE @]
    /\ calls' = [calls EXCEPT ![p] = @ + 1]
    /\ topic_name' = [topic_name EXCEPT ![p] = name]
    /\ shard_index' = [shard_index EXCEPT ![p] = idx]
    /\ result' = [result EXCEPT ![p] = NoResult]
    /\ startVer' = [startVer EXCEPT ![p] = changes]
    /\ backoff' = [backoff EXCEPT ![p] = Backoff_new(backoff_config)]
    /\ IF pc[p] \in Terminal /\ topic[p].is_some /\ topic_name[p] = name
       THEN /\ UNCHANGED topic
            /\ inflight' = [inflight EXCEPT ![p] =
                              [kind |-> "shard", topic_id |-> topic[p].val.id,
                               shard_index |-> ShardIndex_new(idx)]]
            /\ pc' = [pc EXCEPT ![p] = "shard_call"]
       ELSE /\ topic' = [topic EXCEPT ![p] = None]
            /\ inflight' = [inflight EXCEPT ![p] = TopicRequest(p)']
            /\ pc' = [pc EXCEPT ![p] = "topic_call"]
    /\ log' = [log EXCEPT ![p] = <<Event("call", inflight'[p])>>]
    /\ lastErr' = [lastErr EXCEPT ![p] = "none"]
    /\ UNCHANGED <<catalog, changes, backoff_config, errVars>>

\* The call begins: arguments bound, Backoff::new, first topic attempt issued.
fetch_shard_id(p, name, idx) ==
    /\ pc[p] \in {"idle"} \cup Terminal
    /\ calls[p] < MaxCalls
    /\ prev' = [prev EXCEPT ![p] =
                  IF pc[p] \in Terminal
                  THEN [kind |-> "call", topic_name |-> topic_name[p],
                        shard_index |-> shard_index[p], result |-> result[p],
                        topic |-> topic[p],
                        startVer |-> startVer[p]]
                  ELSE @]
    /\ calls' = [calls EXCEPT ![p] = @ + 1]
    /\ topic_name' = [topic_name EXCEPT ![p] = name]
    /\ shard_index' = [shard_index EXCEPT ![p] = idx]
    /\ topic' = [topic EXCEPT ![p] = None]
    /\ result' = [result EXCEPT ![p] = NoResult]
    /\ startVer' = [startVer EXCEPT ![p] = changes]
    /\ backoff' = [backoff EXCEPT ![p] = Backoff_new(backoff_config)]
    /\ inflight' = [inflight EXCEPT ![p] = TopicRequest(p)']
    /\ log' = [log EXCEPT ![p] = <<Event("call", inflight'[p])>>]
    /\ pc' = [pc EXCEPT ![p] = "topic_call"]
    /\ lastErr' = [lastErr EXCEPT ![p] = "none"]
    /\ UNCHANGED <<catalog, changes, backoff_config, errVars>>

\* A retry loop that retries at once, without the sleep.
AttemptFailedNoSleep(p, kind, sleeping) ==
    /\ backoff[p].failed < MaxFailures
    /\ inflight' = [inflight EXCEPT ![p] = NoRequest]
    /\ pc' = [pc EXCEPT ![p] = sleeping]
    /\ log' = [log EXCEPT ![p] = @ \o <<Event("err", [req |-> inflight[p]])>>]
    /\ backoff' = [backoff EXCEPT ![p] = Backoff_advance(@, backoff_config)]
    /\ lastErr' = [lastErr EXCEPT ![p] = kind]
    /\ UNCHANGED <<catalog, changes, backoff_config, topic_name, shard_index,
                   topic, result, startVer, calls, prev, errVars>>

\* A retry loop that sleeps twice between two attempts.
AttemptFailedTwoSleeps(p, kind, sleeping) ==
    /\ backoff[p].failed < MaxFailures
    /\ inflight' = [inflight EXCEPT ![p] = NoRequest]
    /\ pc' = [pc EXCEPT ![p] = sleeping]
    /\ log' = [log EXCEPT ![p] =
                 @ \o <<Event("err", [req |-> inflight[p]]),
                        Event("sleep", [req |-> inflight[p],
                                        delay |-> backoff[p].next_delay]),
                        Event("sleep", [req |-> inflight[p],
                                        delay |-> backoff[p].next_delay])>>]
    /\ backoff' = [backoff EXCEPT ![p] = Backoff_advance(@, backoff_config)]
    /\ lastErr' = [lastErr EXCEPT ![p] = kind]
    /\ UNCHANGED <<catalog, changes, backoff_config, topic_name, shard_index,
                   topic, result, startVer, calls, prev, errVars>>

\* A failed attempt inside a retry loop: sleep for the next delay, or give up
\* with an Err that .expect("retry forever") turns into a panic.
AttemptFailed(p, kind, sleeping) ==
    /\ backoff[p].failed < MaxFailures
    /\ inflight' = [inflight EXCEPT ![p] = NoRequest]
    /\ IF retry_all_errors(kind) /\ ~GivesUp(backoff[p], backoff_config)
       THEN /\ pc' = [pc EXCEPT ![p] = sleeping]
            /\ log' = [log EXCEPT ![p] =
                         @ \o <<Event("err", [req |-> inflight[p]]),
                                Event("sleep", [req |-> inflight[p],
                                                delay |-> backoff[p].next_delay])>>]
            /\ backoff' = [backoff EXCEPT ![p] =
                             Backoff_advance(@, backoff_config)]
            /\ UNCHANGED result
       ELSE /\ pc' = [pc EXCEPT ![p] = "panicked"]
            /\ log' = [log EXCEPT ![p] = @ \o <<Event("err", [req |-> inflight[p]])>>]
            /\ result' = [result EXCEPT ![p] = RetryForeverPanic]
            /\ UNCHANGED backoff
    /\ lastErr' = [lastErr EXCEPT ![p] = kind]
    /\ UNCHANGED <<catalog, changes, backoff_config, topic_name, shard_index,
                   topic, startVer, calls, prev, errVars>>

\* A failed topic lookup after which phase 2 starts all the same, on a
\* placeholder topic.
TopicLookupErrProceeds(p, kind) ==
    /\ pc[p] = "topic_call"
    /\ topic' = [topic EXCEPT ![p] = Some([id |-> 7, name |-> topic_name[p]])]
    /\ backoff' = [backoff EXCEPT ![p] = Backoff_new(backoff_config)]
    /\ pc' = [pc EXCEPT ![p] = "shard_call"]
    /\ inflight' = [inflight EXCEPT ![p] = ShardRequest(p, topic'[p].val)]
    /\ log' = [log EXCEPT ![p] =
                 @ \o <<Event("err", [req |-> inflight[p]]),
                        Event("call", inflight'[p])>>]
    /\ UNCHANGED <<catalog, changes, backoff_config, topic_name, shard_index,
                   result, startVer, calls, prev, lastErr, errVars>>

\* The topic lookup in flight fails.
TopicLookupErr(p, kind) ==
    /\ pc[p] = "topic_call"
    /\ AttemptFailed(p, kind, "topic_sleep")


\* A retry of phase 1 that does not wait for the attempt in flight to fail:
\* it issues the topic lookup again beside it.
TopicRetryHedged(p) ==
    /\ pc[p] \in {"topic_sleep", "topic_call"}
    /\ Len(log[p]) < 4
    /\ pc' = [pc EXCEPT ![p] = "topic_call"]
    /\ inflight' = [inflight EXCEPT ![p] = TopicRequest(p)]
    /\ log' = [log EXCEPT ![p] = @ \o <<Event("call", TopicRequest(p))>>]
    /\ lastErr' = [lastErr EXCEPT ![p] = "none"]
    /\ UNCHANGED <<catalog, changes, backoff_config, topic_name, shard_index,
                   topic, backoff, result, startVer, calls, prev, errVars>>

\* A retry of phase 1 that asks for another topic than the caller's.
TopicRetryOtherName(p) ==
    /\ pc[p] = "topic_sleep"
    /\ pc' = [pc EXCEPT ![p] = "topic_call"]
    /\ inflight' = [inflight EXCEPT ![p] =
                      [TopicRequest(p) EXCEPT !.name = "ghost"]]
    /\ log' = [log EXCEPT ![p] = @ \o <<Event("call", inflight'[p])>>]
    /\ lastErr' = [lastErr EXCEPT ![p] = "none"]
    /\ UNCHANGED <<catalog, changes, backoff_config, topic_name, shard_index,
                   topic, backoff, result, startVer, calls, prev, errVars>>

\* The sleep of phase 1 ends and the topic closure runs again.
TopicRetry(p) ==
    /\ pc[p] = "topic_sleep"
    /\ pc' = [pc EXCEPT ![p] = "topic_call"]
    /\ inflight' = [inflight EXCEPT ![p] = TopicRequest(p)]
    /\ log' = [log EXCEPT ![p] = @ \o <<Event("call", TopicRequest(p))>>]
    /\ lastErr' = [lastErr EXCEPT ![p] = "none"]
    /\ UNCHANGED <<catalog, changes, backoff_config, topic_name, shard_index,
                   topic, backoff, result, startVer, calls, prev, errVars>>

\* A missing topic that is reported without halting: the call goes on to the
\* shard lookup with the topic id 0.
AfterTopicLogsOnly(p, r) ==
    LET t == IF r.is_some THEN r.val ELSE [id |-> 0, name |-> topic_name[p]] IN
    /\ topic' = [topic EXCEPT ![p] = Some(t)]
    /\ backoff' = [backoff EXCEPT ![p] = Backoff_new(backoff_config)]
    /\ pc' = [pc EXCEPT ![p] = "shard_call"]
    /\ inflight' = [inflight EXCEPT ![p] = ShardRequest(p, t)]
    /\ log' = [log EXCEPT ![p] =
                 @ \o <<Event("ok", [req |-> inflight[p], reply |-> r]),
                        Event("call", ShardRequest(p, t))>>]
    /\ result' = [result EXCEPT ![p] =
                    IF r.is_some THEN @ ELSE MissingTopic(p)]

\* A phase 2 that goes on with the Backoff instance of phase 1.
AfterTopicSharedBackoff(p, r) ==
    IF ~r.is_some
    THEN /\ pc' = [pc EXCEPT ![p] = "panicked"]
         /\ result' = [result EXCEPT ![p] = MissingTopic(p)]
         /\ inflight' = [inflight EXCEPT ![p] = NoRequest]
         /\ log' = [log EXCEPT ![p] =
                      @ \o <<Event("ok", [req |-> inflight[p], reply |-> r])>>]
         /\ UNCHANGED <<topic, backoff>>
    ELSE /\ topic' = [topic EXCEPT ![p] = r]
         /\ pc' = [pc EXCEPT ![p] = "shard_call"]
         /\ inflight' = [inflight EXCEPT ![p] = ShardRequest(p, r.val)]
         /\ log' = [log EXCEPT ![p] =
                      @ \o <<Event("ok", [req |-> inflight[p], reply |-> r]),
                             Event("call", ShardRequest(p, r.val))>>]
         /\ UNCHANGED <<result, backoff>>

\* A topic record kept in one slot that all callers share, as a field of
\* Config would be.
AfterTopicSharedSlot(p, r) ==
    IF ~r.is_some
    THEN /\ pc' = [pc EXCEPT ![p] = "panicked"]
         /\ result' = [result EXCEPT ![p] = MissingTopic(p)]
         /\ inflight' = [inflight EXCEPT ![p] = NoRequest]
         /\ log' = [log EXCEPT ![p] =
                      @ \o <<Event("ok", [req |-> inflight[p], reply |-> r])>>]
         /\ UNCHANGED <<topic, backoff>>
    ELSE /\ topic' = [q \in AllProcs |-> r]
         /\ backoff' = [backoff EXCEPT ![p] = Backoff_new(backoff_config)]
         /\ pc' = [pc EXCEPT ![p] = "shard_call"]
         /\ inflight' = [inflight EXCEPT ![p] = ShardRequest(p, r.val)]
         /\ log' = [log EXCEPT ![p] =
                      @ \o <<Event("ok", [req |-> inflight[p], reply |-> r]),
                             Event("call", ShardRequest(p, r.val))>>]
         /\ UNCHANGED result

\* What follows an Ok answer r of the topic lookup: panic on None, otherwise
\* bind `topic`, take a fresh Backoff and issue the first shard attempt.
AfterTopic(p, r) ==
    IF ~r.is_some
    THEN /\ pc' = [pc EXCEPT ![p] = "panicked"]
         /\ result' = [result EXCEPT ![p] = MissingTopic(p)]
         /\ inflight' = [inflight EXCEPT ![p] = NoRequest]
         /\ log' = [log EXCEPT ![p] =
                      @ \o <<Event("ok", [req |-> inflight[p], reply |-> r])>>]
         /\ UNCHANGED <<topic, backoff>>
    ELSE /\ topic' = [topic EXCEPT ![p] = r]
         /\ backoff' = [backoff EXCEPT ![p] = Backoff_new(backoff_config)]
         /\ pc' = [pc EXCEPT ![p] = "shard_call"]
         /\ inflight' = [inflight EXCEPT ![p] = ShardRequest(p, r.val)]
         /\ log' = [log EXCEPT ![p] =
                      @ \o <<Event("ok", [req |-> inflight[p], reply |-> r]),
                             Event("call", ShardRequest(p, r.val))>>]
         /\ UNCHANGED result

\* A topic lookup that creates the topic it does not find.
TopicLookupOkCreates(p) ==
    /\ pc[p] = "topic_call"
    /\ LET found   == get_by_name(catalog, inflight[p].name)
           created == [id |-> 8, name |-> inflight[p].name]
       IN  IF found.is_some
           THEN AfterTopic(p, found) /\ UNCHANGED catalog
           ELSE /\ AfterTopic(p, Some(created))
                /\ catalog' = [catalog EXCEPT !.topics = @ \cup {created}]
    /\ UNCHANGED <<changes, backoff_config, topic_name, shard_index,
                   startVer, calls, prev, lastErr, errVars>>

\* The topic lookup in flight is answered by the catalog.
TopicLookupOk(p) ==
    /\ pc[p] = "topic_call"
    /\ AfterTopic(p, get_by_name(catalog, inflight[p].name))
    /\ UNCHANGED <<catalog, changes, backoff_config, topic_name, shard_index,
                   startVer, calls, prev, lastErr, errVars>>

\* The shard lookup in flight fails.
ShardLookupErr(p, kind) ==
    /\ pc[p] = "shard_call"
    /\ AttemptFailed(p, kind, "shard_sleep")

\* A retry of phase 2 that starts over with the topic lookup.
ShardRetryRestarts(p) ==
    /\ pc[p] = "shard_sleep"
    /\ pc' = [pc EXCEPT ![p] = "topic_call"]
    /\ inflight' = [inflight EXCEPT ![p] = TopicRequest(p)]
    /\ log' = [log EXCEPT ![p] = @ \o <<Event("call", TopicRequest(p))>>]
    /\ lastErr' = [lastErr EXCEPT ![p] = "none"]
    /\ UNCHANGED <<catalog, changes, backoff_config, topic_name, shard_index,
                   topic, backoff, result, startVer, calls, prev, errVars>>

\* A retry of phase 2 that has lost the caller's shard index.
ShardRetryOtherIndex(p) ==
    /\ pc[p] = "shard_sleep"
    /\ pc' = [pc EXCEPT ![p] = "shard_call"]
    /\ inflight' = [inflight EXCEPT ![p] =
                      [ShardRequest(p, topic[p].val)
                         EXCEPT !.shard_index = ShardIndex_new(99)]]
    /\ log' = [log EXCEPT ![p] = @ \o <<Event("call", inflight'[p])>>]
    /\ lastErr' = [lastErr EXCEPT ![p] = "none"]
    /\ UNCHANGED <<catalog, changes, backoff_config, topic_name, shard_index,
                   topic, backoff, result, startVer, calls, prev, errVars>>

\* The sleep of phase 2 ends and the shard closure runs again.
ShardRetry(p) ==
    /\ pc[p] = "shard_sleep"
    /\ pc' = [pc EXCEPT ![p] = "shard_call"]
    /\ inflight' = [inflight EXCEPT ![p] = ShardRequest(p, topic[p].val)]
    /\ log' = [log EXCEPT ![p] =
                 @ \o <<Event("call", ShardRequest(p, topic[p].val))>>]
    /\ lastErr' = [lastErr EXCEPT ![p] = "none"]
    /\ UNCHANGED <<catalog, changes, backoff_config, topic_name, shard_index,
                   topic, backoff, result, startVer, calls, prev, errVars>>

\* A match on `shard` that treats None as one more failed attempt.
AfterShardRetryNone(p, r) ==
    /\ log' = [log EXCEPT ![p] =
                 @ \o <<Event("ok", [req |-> inflight[p], reply |-> r])>>]
    /\ IF r.is_some
       THEN /\ pc' = [pc EXCEPT ![p] = "returned"]
            /\ result' = [result EXCEPT ![p] = Returned(r.val)]
            /\ inflight' = [inflight EXCEPT ![p] = NoRequest]
       ELSE /\ pc' = [pc EXCEPT ![p] = "shard_sleep"]
            /\ inflight' = [inflight EXCEPT ![p] = NoRequest]
            /\ UNCHANGED result

\* A match on `shard` that waits for ever on None instead of panicking.
AfterShardHangs(p, r) ==
    /\ inflight' = [inflight EXCEPT ![p] = NoRequest]
    /\ log' = [log EXCEPT ![p] =
                 @ \o <<Event("ok", [req |-> inflight[p], reply |-> r])>>]
    /\ IF r.is_some
       THEN /\ pc' = [pc EXCEPT ![p] = "returned"]
            /\ result' = [result EXCEPT ![p] = Returned(r.val)]
       ELSE /\ pc' = [pc EXCEPT ![p] = "hung"]
            /\ UNCHANGED result

\* What follows an Ok answer r of the shard lookup: the match on `shard`.
AfterShard(p, r) ==
    /\ inflight' = [inflight EXCEPT ![p] = NoRequest]
    /\ log' = [log EXCEPT ![p] =
                 @ \o <<Event("ok", [req |-> inflight[p], reply |-> r])>>]
    /\ IF r.is_some
       THEN /\ pc' = [pc EXCEPT ![p] = "returned"]
            /\ result' = [result EXCEPT ![p] = Returned(r.val)]
       ELSE /\ pc' = [pc EXCEPT ![p] = "panicked"]
            /\ result' = [result EXCEPT ![p] = MissingShard(p)]

\* The shard lookup in flight is answered by the catalog.
ShardLookupOk(p) ==
    /\ pc[p] = "shard_call"
    /\ AfterShard(p, get_by_topic_id_and_shard_index(
                        catalog, inflight[p].topic_id, inflight[p].shard_index))
    /\ UNCHANGED <<catalog, changes, backoff_config, topic_name, shard_index,
                   topic, backoff, startVer, calls, prev, lastErr, errVars>>

\* ------------------------------------------------------------- the environment
\* The outside world changes the catalog's contents.
CatalogChange(c) ==
    /\ changes < MaxChanges
    /\ c # catalog
    /\ CatalogOk(c)
    /\ catalog' = c
    /\ changes' = changes + 1
    /\ UNCHANGED <<backoff_config, pc, topic_name, shard_index, topic, backoff,
                   inflight, result, log, startVer, calls, prev, lastErr, errVars>>

\* ------------------------------------------------------------ specification
\* No caller has called fetch_shard_id yet.
NoCallYet ==
    /\ changes = 0
    /\ pc = [p \in AllProcs |-> "idle"]
    /\ topic_name = [p \in AllProcs |-> "sensors"]
    /\ shard_index = [p \in AllProcs |-> 2]
    /\ topic = [p \in AllProcs |-> None]
    /\ backoff = [p \in AllProcs |-> Backoff_new(backoff_config)]
    /\ inflight = [p \in AllProcs |-> NoRequest]
    /\ result = [p \in AllProcs |-> NoResult]
    /\ log = [p \in AllProcs |-> <<>>]
    /\ startVer = [p \in AllProcs |-> 0]
    /\ calls = [p \in AllProcs |-> 0]
    /\ prev = [p \in AllProcs |-> NoCall]
    /\ lastErr = [p \in AllProcs |-> "none"]

Init ==
    /\ catalog \in Catalogs
    /\ backoff_config \in Schedules
    /\ NoCallYet
    /\ input = <<>>
    /\ verdict = None

Next ==
    \/ \E p \in Procs, name \in TopicNames, idx \in ShardIndexValues :
          fetch_shard_id(p, name, idx)
    \/ \E p \in Procs, kind \in ErrorKinds : TopicLookupErr(p, kind)
    \/ \E p \in Procs : TopicRetry(p)
    \/ \E p \in Procs : TopicLookupOk(p)
    \/ \E p \in Procs, kind \in ErrorKinds : ShardLookupErr(p, kind)
    \/ \E p \in Procs : ShardRetry(p)
    \/ \E p \in Procs : ShardLookupOk(p)
    \/ \E c \in Catalogs : CatalogChange(c)

Spec == Init /\ [][Next]_vars

\* --------------------------------------------------------------- error_check
\* The longest string error_check is given.
MaxLen == 6
\* The characters of the strings: the letters of "Error" and one other.
Chars == {"E", "r", "o", "x"}
\* The strings of at most n characters.
StringsUpTo(n) == UNION {[1..k -> Chars] : k \in 0..n}

\* remote_query of is_a_error.
ErrorWord == <<"E", "r", "r", "o", "r">>

\* The characters of a string.
TokensOf(w) == {w[i] : i \in 1..Len(w)}

\* The length of the longest prefix of s made of characters of arr only.
RECURSIVE PrefixLen(_, _)
PrefixLen(arr, s) ==
    IF s = <<>> \/ Head(s) \notin TokensOf(arr) THEN 0
    ELSE 1 + PrefixLen(arr, Tail(s))

\* nom's is_a(arr)(s): the longest prefix of s made of characters that occur
\* in arr, and the rest of s; an error when that prefix is empty.
is_a(arr, s) ==
    LET n == PrefixLen(arr, s) IN
    IF n = 0
    THEN [is_err |-> TRUE, rest |-> s, matched |-> <<>>]
    ELSE [is_err |-> FALSE, rest |-> SubSeq(s, n + 1, Len(s)),
          matched |-> SubSeq(s, 1, n)]

is_a_error(s) == is_a(ErrorWord, s)

error_check(s) ==
    LET mybool == IF is_a_error(s).is_err THEN TRUE ELSE FALSE IN
    mybool

\* A call of error_check on the string at hand.
ErrorCheck ==
    /\ verdict = None
    /\ verdict' = Some(error_check(input))
    /\ UNCHANGED <<catalog, changes, backoff_config, pc, topic_name,
                   shard_index, topic, backoff, inflight, result, log,
                   startVer, calls, prev, lastErr, input>>

\* error_check alone, on every string of at most MaxLen characters.
ErrInit ==
    /\ catalog = SensorsCatalog
    /\ backoff_config \in Schedules /\ ~backoff_config.cap.is_some
    /\ NoCallYet
    /\ input \in StringsUpTo(MaxLen)
    /\ verdict = None

ErrNext == ErrorCheck

ErrSpec == ErrInit /\ [][ErrNext]_vars

\* The scheduling the retry loops rely on: a sleep ends, and a lookup that is
\* attempted again and again is answered in the end.
Fairness ==
    \A p \in Procs :
        /\ WF_vars(TopicRetry(p))
        /\ WF_vars(ShardRetry(p))
        /\ SF_vars(TopicLookupOk(p))
        /\ SF_vars(ShardLookupOk(p))

FairSpec == Spec /\ Fairness

\* Two callers, each with one call of fetch_shard_id on the same Config,
\* their steps interleaved in every order, the catalog left alone.
PairNext ==
    \/ \E p \in AllProcs, name \in TopicNames, idx \in ShardIndexValues :
          calls[p] = 0 /\ fetch_shard_id(p, name, idx)
    \/ \E p \in AllProcs, kind \in ErrorKinds : TopicLookupErr(p, kind)
    \/ \E p \in AllProcs : TopicRetry(p)
    \/ \E p \in AllProcs : TopicLookupOk(p)
    \/ \E p \in AllProcs, kind \in ErrorKinds : ShardLookupErr(p, kind)
    \/ \E p \in AllProcs : ShardRetry(p)
    \/ \E p \in AllProcs : ShardLookupOk(p)

PairSpec == Init /\ [][PairNext]_vars

\* ------------------------------------------------------- reading the log
Idx(p) == 1..Len(log[p])
IsCall(e, k) == e.ev = "call" /\ e.arg.kind = k
IsOk(e, k) == e.ev = "ok" /\ e.arg.req.kind = k
IsErr(e, k) == e.ev = "err" /\ e.arg.req.kind = k
IsSleep(e, k) == e.ev = "sleep" /\ e.arg.req.kind = k
NCalls(p, k) == Cardinality({i \in Idx(p) : IsCall(log[p][i], k)})
NErrs(p, k) == Cardinality({i \in Idx(p) : IsErr(log[p][i], k)})
NSleeps(p, k) == Cardinality({i \in Idx(p) : IsSleep(log[p][i], k)})
\* The lookup of kind k was answered Ok, with a record or without.
Answered(p, k) == \E i \in Idx(p) : IsOk(log[p][i], k)
FoundRecord(p, k) ==
    \E i \in Idx(p) : IsOk(log[p][i], k) /\ log[p][i].arg.reply.is_some
\* The catalog has not changed since the running call of p began.
Unchanged(p) == startVer[p] = changes

\* ------------------------------------------------------------------ claims

\* C1: when the catalog maps topic_name to a topic record with id T and
\* (T, shard_index) to a shard record with id S, and does not change during
\* the call, a call that has ended has returned exactly S, whatever number of
\* lookups failed on the way.
C1_ReturnsMappedShard ==
    \A p \in Procs, T \in TopicIds, S \in ShardIds :
        ( /\ pc[p] \in Terminal
          /\ Unchanged(p)
          /\ [id |-> T, name |-> topic_name[p]] \in catalog.topics
          /\ [id |-> S, topic_id |-> T,
              shard_index |-> ShardIndex_new(shard_index[p])] \in catalog.shards )
        => result[p] = [kind |-> "returned", id |-> S]

\* "sensors" -> 7, (7, 2) -> 42 gives 42, after failures in both phases.
C1_Witness ==
    \E p \in Procs :
        /\ pc[p] = "returned" /\ Unchanged(p)
        /\ catalog = SensorsCatalog
        /\ topic_name[p] = "sensors" /\ shard_index[p] = 2
        /\ result[p] = [kind |-> "returned", id |-> 42]
        /\ NErrs(p, "topic") >= 1 /\ NErrs(p, "shard") >= 1

\* C2: an Ok answer of the topic lookup without a record ends the call at
\* once in the missing-topic panic, which names the caller's topic_name, and
\* the call has issued no shard lookup.
C2_MissingTopicHalts ==
    \A p \in Procs : \A i \in Idx(p) :
        (IsOk(log[p][i], "topic") /\ ~log[p][i].arg.reply.is_some)
        => /\ i = Len(log[p])
           /\ pc[p] = "panicked"
           /\ result[p].kind = "missing_topic"
           /\ result[p].topic_name = topic_name[p]
           /\ NCalls(p, "shard") = 0
           /\ inflight[p] = NoRequest

\* No topic "ghost": the call panics naming "ghost", after a retried failure.
C2_Witness ==
    \E p \in Procs :
        /\ pc[p] = "panicked"
        /\ topic_name[p] = "ghost" /\ shard_index[p] = 2
        /\ result[p] = [kind |-> "missing_topic", topic_name |-> "ghost"]
        /\ NErrs(p, "topic") >= 1
        /\ NCalls(p, "shard") = 0

\* C3: an Ok answer of the shard lookup without a record, after the topic
\* lookup gave a record, ends the call in the missing-shard panic, which is
\* not the missing-topic panic and names the caller's topic_name and
\* shard_index; no shard id is returned.
C3_MissingShardHalts ==
    \A p \in Procs : \A i \in Idx(p) :
        (IsOk(log[p][i], "shard") /\ ~log[p][i].arg.reply.is_some)
        => /\ FoundRecord(p, "topic")
           /\ pc[p] = "panicked"
           /\ result[p].kind = "missing_shard"
           /\ result[p].topic_name = topic_name[p]
           /\ result[p].shard_index = shard_index[p]
           /\ result[p] # MissingTopic(p)
           /\ result[p].kind # "returned"

\* "sensors" is topic 7, which has no shard of index 99.
C3_Witness ==
    \E p \in Procs :
        /\ pc[p] = "panicked"
        /\ topic[p] = Some([id |-> 7, name |-> "sensors"])
        /\ result[p] = [kind |-> "missing_shard", topic_name |-> "sensors",
                        shard_index |-> 99]

C5_ShardLookupUsesPhase1Id ==
    \A p \in Procs : \A i \in Idx(p) :
        IsCall(log[p][i], "shard") =>
            \E j \in 1..(i - 1) :
                /\ IsOk(log[p][j], "topic")
                /\ log[p][j].arg.reply.is_some
                /\ log[p][i].arg.topic_id = log[p][j].arg.reply.val.id

\* A second call for the same name whose topic id differs from the one of
\* the first call, with a retried shard lookup.
C5_Witness ==
    \E p \in Procs :
        /\ prev[p].kind = "call" /\ prev[p].topic.is_some
        /\ prev[p].topic_name = topic_name[p]
        /\ topic[p].is_some
        /\ prev[p].topic.val.id # topic[p].val.id
        /\ NCalls(p, "shard") >= 2

\* C6: a lookup that failed N times and was then answered was invoked N + 1
\* times with N sleeps, and a call whose two lookups both found their record
\* has returned.
C6_RetriesCounted ==
    \A p \in Procs :
        /\ \A k \in {"topic", "shard"} :
              Answered(p, k) =>
                  /\ NCalls(p, k) = NErrs(p, k) + 1
                  /\ NSleeps(p, k) = NErrs(p, k)
        /\ (FoundRecord(p, "topic") /\ FoundRecord(p, "shard")) =>
              pc[p] = "returned"

\* Two failures of the topic lookup and one of the shard lookup, then success.
C6_Witness ==
    \E p \in Procs :
        /\ pc[p] = "returned"
        /\ NErrs(p, "topic") = 2 /\ NCalls(p, "topic") = 3
        /\ NErrs(p, "shard") = 1 /\ NCalls(p, "shard") = 2

\* C7: an Ok answer without a record is the last event of its call: no
\* lookup of either kind follows it, also when the catalog has changed since.
C7_NotFoundNeverRetried ==
    \A p \in Procs : \A i \in Idx(p) :
        (log[p][i].ev = "ok" /\ ~log[p][i].arg.reply.is_some)
        => /\ i = Len(log[p])
           /\ pc[p] = "panicked"
           /\ inflight[p] = NoRequest

\* The topic was missing when looked up and is in the catalog now.
C7_Witness ==
    \E p \in Procs :
        /\ pc[p] = "panicked" /\ result[p].kind = "missing_topic"
        /\ changes > startVer[p]
        /\ \E t \in catalog.topics : t.name = topic_name[p]

\* C8: no topic lookup is issued after a shard lookup of the same call.
C8_Phase2NeverRestartsPhase1 ==
    \A p \in Procs : \A j \in Idx(p) :
        IsCall(log[p][j], "topic") =>
            \A i \in 1..(j - 1) : ~IsCall(log[p][i], "shard")

\* The shard lookup failed twice and was issued a third time.
C8_Witness ==
    \E p \in Procs :
        /\ NErrs(p, "shard") = 2 /\ NCalls(p, "shard") = 3
        /\ NErrs(p, "topic") >= 1

\* C9: a shard lookup is issued only after a topic lookup of the call was
\* answered with a record, and every topic lookup issued before it has been
\* answered by then; while a topic lookup is in flight no shard lookup has
\* been issued.
C9_Phase2AfterPhase1 ==
    \A p \in Procs :
        /\ \A i \in Idx(p) :
              IsCall(log[p][i], "shard") =>
                  /\ \E j \in 1..(i - 1) :
                        IsOk(log[p][j], "topic") /\ log[p][j].arg.reply.is_some
                  /\ \A j \in 1..(i - 1) :
                        IsCall(log[p][j], "topic") =>
                            /\ j + 1 < i
                            /\ \/ IsOk(log[p][j + 1], "topic")
                               \/ IsErr(log[p][j + 1], "topic")
        /\ inflight[p].kind = "shard" => topic[p].is_some
        /\ inflight[p].kind = "topic" => NCalls(p, "shard") = 0

\* A shard lookup in flight after a topic lookup that had to be retried.
C9_Witness ==
    \E p \in Procs :
        /\ inflight[p].kind = "shard"
        /\ NErrs(p, "topic") >= 1

\* C10: a second call with the arguments of the first, the catalog unchanged
\* since the first began, ends as the first did: the same shard id.
C10_SameInputsSameResult ==
    \A p \in Procs :
        ( /\ prev[p].kind = "call"
          /\ pc[p] \in Terminal
          /\ prev[p].topic_name = topic_name[p]
          /\ prev[p].shard_index = shard_index[p]
          /\ prev[p].startVer = changes )
        => result[p] = prev[p].result

\* Both calls returned the same id, the second after failures in both
\* phases.
C10_Witness ==
    \E p \in Procs :
        /\ prev[p].kind = "call" /\ prev[p].startVer = changes
        /\ prev[p].topic_name = topic_name[p]
        /\ prev[p].shard_index = shard_index[p]
        /\ pc[p] = "returned" /\ result[p] = prev[p].result
        /\ NErrs(p, "topic") >= 1 /\ NErrs(p, "shard") >= 1

\* A retry loop of caller p is between two attempts.
Sleeping(p) == pc[p] \in {"topic_sleep", "shard_sleep"}
\* The caller's next attempt can be made.
CanRetry(p) ==
    \/ pc[p] = "topic_sleep" /\ ENABLED TopicRetry(p)
    \/ pc[p] = "shard_sleep" /\ ENABLED ShardRetry(p)
LastEvent(p) == log[p][Len(log[p])]

Running(p) == pc[p] \in {"topic_call", "topic_sleep", "shard_call", "shard_sleep"}
\* The call of caller p has ended in one of its three outcomes.
Ended(p) ==
    \/ pc[p] = "returned" /\ result[p].kind = "returned"
    \/ pc[p] = "panicked" /\ result[p].kind = "missing_topic"
    \/ pc[p] = "panicked" /\ result[p].kind = "missing_shard"

\* C12: when sleeps end and retried lookups are answered in the end, every
\* call that is under way ends: with a returned shard id, in the
\* missing-topic panic or in the missing-shard panic.
C12_EveryCallEnds == \A p \in Procs : Running(p) ~> Ended(p)

\* A call that ended in the missing-shard panic after retries in both phases.
C12_Witness ==
    \E p \in Procs :
        /\ pc[p] = "panicked" /\ result[p].kind = "missing_shard"
        /\ NErrs(p, "topic") >= 1 /\ NErrs(p, "shard") >= 1

\* C13: a call that has returned found a record in both of its phases, and
\* the id it returned is the id of the shard record that its last shard
\* lookup was answered with, a shard id of the catalog and no placeholder.
C13_ReturnedAfterBothPhases ==
    \A p \in Procs :
        (pc[p] = "returned" \/ result[p].kind = "returned") =>
            /\ pc[p] = "returned" /\ result[p].kind = "returned"
            /\ FoundRecord(p, "topic")
            /\ topic[p].is_some
            /\ IsOk(LastEvent(p), "shard")
            /\ LastEvent(p).arg.reply.is_some
            /\ LastEvent(p).arg.reply.val.topic_id = topic[p].val.id
            /\ result[p].id = LastEvent(p).arg.reply.val.id
            /\ result[p].id \in ShardIds

\* Shard id 43 returned for topic 8 after a retried shard lookup.
C13_Witness ==
    \E p \in Procs :
        /\ pc[p] = "returned"
        /\ result[p] = [kind |-> "returned", id |-> 43]
        /\ topic[p] = Some([id |-> 8, name |-> "sensors"])
        /\ NErrs(p, "shard") >= 1

\* C14: every call begins with a topic lookup of its own for its topic_name,
\* its `topic` is a record one of its own topic lookups was answered with,
\* and while the catalog has not changed since the call began that record
\* and the returned shard are records of the catalog as it is now, whatever
\* an earlier call resolved.
C14_TopicNotCached ==
    \A p \in Procs :
        pc[p] # "idle" =>
            /\ IsCall(log[p][1], "topic")
            /\ log[p][1].arg.name = topic_name[p]
            /\ topic[p].is_some =>
                  \E i \in Idx(p) :
                      IsOk(log[p][i], "topic") /\ log[p][i].arg.reply = topic[p]
            /\ (topic[p].is_some /\ Unchanged(p)) =>
                  /\ topic[p].val \in catalog.topics
                  /\ topic[p].val.name = topic_name[p]
            /\ (pc[p] = "returned" /\ Unchanged(p)) =>
                  \E sh \in catalog.shards :
                      /\ sh.id = result[p].id
                      /\ sh.topic_id = topic[p].val.id
                      /\ sh.shard_index = ShardIndex_new(shard_index[p])

\* The mapping of the name changed between two calls that both returned: the
\* second one resolved another topic id and another shard id.
C14_Witness ==
    \E p \in Procs :
        /\ prev[p].kind = "call" /\ prev[p].result.kind = "returned"
        /\ prev[p].topic_name = topic_name[p]
        /\ prev[p].shard_index = shard_index[p]
        /\ prev[p].startVer < startVer[p] /\ Unchanged(p)
        /\ pc[p] = "returned"
        /\ prev[p].topic.val.id # topic[p].val.id
        /\ prev[p].result # result[p]

\* C15: whatever the kind of a lookup's error, the permanent kind included,
\* the call does not end on it: the retry loop sleeps, the sleep belongs to
\* the lookup that failed, and that lookup's next attempt can be made.
C15_EveryErrorRetried ==
    \A p \in Procs :
        lastErr[p] # "none" =>
            /\ lastErr[p] \in ErrorKinds
            /\ Sleeping(p) /\ CanRetry(p)
            /\ result[p] = NoResult
            /\ LastEvent(p).ev = "sleep"
            /\ pc[p] = "topic_sleep" <=> LastEvent(p).arg.req.kind = "topic"
            /\ pc[p] = "shard_sleep" <=> LastEvent(p).arg.req.kind = "shard"

\* The shard lookup failed with a permanent error and its loop is asleep.
C15_Witness ==
    \E p \in Procs :
        /\ lastErr[p] = "permanent"
        /\ pc[p] = "shard_sleep" /\ CanRetry(p)
        /\ NErrs(p, "topic") >= 1

\* The lookup an event of the log belongs to.
KindOf(e) == IF e.ev = "call" THEN e.arg.kind ELSE e.arg.req.kind

\* C16: an Ok answer ends its retry loop at once: no attempt and no sleep of
\* that lookup follows it; the first attempt of a lookup follows no sleep; a
\* sleep follows only a failed attempt; and a later attempt follows exactly
\* one sleep, which follows the failure of the attempt before.
C16_ReturnsOnFirstSuccess ==
    \A p \in Procs : \A i \in Idx(p) :
        LET e == log[p][i] IN
        /\ e.ev = "ok" =>
              /\ \A j \in (i + 1)..Len(log[p]) : KindOf(log[p][j]) # KindOf(e)
              /\ i < Len(log[p]) => log[p][i + 1].ev = "call"
        /\ e.ev = "sleep" =>
              /\ i > 1
              /\ log[p][i - 1].ev = "err" /\ KindOf(log[p][i - 1]) = KindOf(e)
        /\ e.ev = "call" =>
              \/ i = 1
              \/ log[p][i - 1].ev = "ok" /\ KindOf(log[p][i - 1]) # KindOf(e)
              \/ /\ i > 3
                 /\ log[p][i - 1].ev = "sleep" /\ KindOf(log[p][i - 1]) = KindOf(e)
                 /\ log[p][i - 2].ev = "err"
                 /\ log[p][i - 3] = e

\* A call that returned after two failures of each lookup.
C16_Witness ==
    \E p \in Procs :
        /\ pc[p] = "returned"
        /\ NErrs(p, "topic") = 2 /\ NSleeps(p, "topic") = 2
        /\ NErrs(p, "shard") = 2 /\ NSleeps(p, "shard") = 2

\* The delay a schedule prescribes before the n-th retry of one loop.
RECURSIVE ScheduleDelay(_, _)
ScheduleDelay(cfg, n) ==
    IF n <= 1 THEN cfg.init_backoff
    ELSE Min(ScheduleDelay(cfg, n - 1) * cfg.base, cfg.max_backoff)

\* C17: the n-th sleep of a lookup lasts what the schedule prescribes for
\* the n-th retry of a loop of its own: the first sleep of phase 2 is the
\* initial delay, however often phase 1 failed.
C17_Phase2FreshBackoff ==
    \A p \in Procs : \A i \in Idx(p) :
        log[p][i].ev = "sleep" =>
            log[p][i].arg.delay =
                ScheduleDelay(backoff_config,
                    Cardinality({j \in 1..i :
                        IsSleep(log[p][j], KindOf(log[p][i]))}))

\* Phase 1 slept twice, for 1 and 2, and phase 2 then slept for 1 and 2.
C17_Witness ==
    \E p \in Procs :
        /\ NSleeps(p, "topic") = 2 /\ NSleeps(p, "shard") = 2
        /\ LastEvent(p).ev = "sleep" /\ LastEvent(p).arg.delay = 2
        /\ \E i \in Idx(p) :
              /\ IsSleep(log[p][i], "shard") /\ log[p][i].arg.delay = 1
              /\ \E j \in 1..(i - 1) :
                    IsSleep(log[p][j], "topic") /\ log[p][j].arg.delay = 2

\* The variables the calls of fetch_shard_id work on.
CallVars ==
    <<pc, topic_name, shard_index, topic, backoff, inflight, result, log,
      startVer, calls, prev, lastErr>>

\* C18: a step of a call of fetch_shard_id, whichever it is and however the
\* call ends, leaves the catalog's contents and the BackoffConfig as they
\* were; the two change, if at all, by the outside world's steps only.
C18_ReadOnly ==
    [][CallVars' # CallVars =>
          /\ catalog' = catalog
          /\ backoff_config' = backoff_config
          /\ changes' = changes]_vars

\* A call has returned after failed attempts in both phases, with the
\* catalog never changed since the call began.
C18_Witness ==
    \E p \in Procs :
        /\ pc[p] = "returned" /\ Unchanged(p) /\ changes = 0
        /\ NErrs(p, "topic") >= 1 /\ NErrs(p, "shard") >= 1

\* The string w occurs in the string s.
Contains(s, w) ==
    \E i \in 1..(Len(s) - Len(w) + 1) : SubSeq(s, i, i + Len(w) - 1) = w

\* C19: error_check(s) is true exactly when the word "Error" does not occur
\* in s, and false exactly when it does.
C19_TrueIffNoErrorWord ==
    verdict.is_some => (verdict.val <=> ~Contains(input, ErrorWord))

\* error_check has answered true for "xError", and "ox", without the word,
\* is a string it answers false for.
C19_Witness ==
    /\ input = <<"x">> \o ErrorWord
    /\ verdict = Some(TRUE)
    /\ ~error_check(<<"o", "x">>)

\* The event e is an answer that ends a call: no topic, or the answer of the
\* shard lookup.
Final(e) == (IsOk(e, "topic") /\ ~e.arg.reply.is_some) \/ IsOk(e, "shard")
\* The outcome the final answer e stands for.
OutcomeOf(e) ==
    IF e.arg.req.kind = "topic" THEN "missing_topic"
    ELSE IF e.arg.reply.is_some THEN "returned" ELSE "missing_shard"

\* C20: a call has at most one final answer, which is its last event, so
\* that no call and no sleep follows it; the call is in a terminal state
\* exactly when it has one, with the one outcome that answer stands for and
\* no request in flight; and no step but a new call of fetch_shard_id
\* changes anything of a call that has ended.
C20_OutcomesExclusiveAbsorbing ==
    /\ [](\A p \in Procs :
            /\ \A i \in Idx(p) : Final(log[p][i]) => i = Len(log[p])
            /\ pc[p] \in Terminal <=> (log[p] # <<>> /\ Final(LastEvent(p)))
            /\ pc[p] \in Terminal =>
                  /\ result[p].kind = OutcomeOf(LastEvent(p))
                  /\ pc[p] = "returned" <=> result[p].kind = "returned"
                  /\ inflight[p] = NoRequest
            /\ pc[p] \notin Terminal => result[p] = NoResult)
    /\ [][\A p \in Procs :
            (pc[p] \in Terminal /\ calls'[p] = calls[p]) =>
                /\ pc'[p] = pc[p] /\ result'[p] = result[p]
                /\ log'[p] = log[p] /\ inflight'[p] = inflight[p]
                /\ backoff'[p] = backoff[p] /\ topic'[p] = topic[p]]_vars

\* The catalog has changed after a call ended in the missing-topic panic
\* that followed a failed attempt and a sleep.
C20_Witness ==
    \E p \in Procs :
        /\ pc[p] = "panicked" /\ result[p].kind = "missing_topic"
        /\ NSleeps(p, "topic") >= 1
        /\ startVer[p] < changes

\* C21: every topic lookup of a call, the first and each retry, asks for the
\* caller's topic_name; every shard lookup asks for the caller's shard_index
\* wrapped in a ShardIndex and for the id of the topic record at hand; and
\* an attempt that follows a failure and its sleep repeats the request that
\* failed, which is also the one the sleep and the answer belong to.
C21_RetryRepeatsRequest ==
    \A p \in Procs : \A i \in Idx(p) :
        LET e == log[p][i] IN
        /\ IsCall(e, "topic") => e.arg.name = topic_name[p]
        /\ IsCall(e, "shard") =>
              /\ e.arg.shard_index = ShardIndex_new(shard_index[p])
              /\ topic[p].is_some /\ e.arg.topic_id = topic[p].val.id
        /\ \A j \in Idx(p) :
              (e.ev = "call" /\ log[p][j].ev = "call"
                 /\ KindOf(log[p][j]) = KindOf(e)) => log[p][j] = e
        /\ (e.ev # "call" /\ i > 1) =>
              e.arg.req = (IF log[p][i - 1].ev = "call"
                           THEN log[p][i - 1].arg
                           ELSE log[p][i - 1].arg.req)

\* Three topic lookups and three shard lookups in one call for "sensors" and
\* index 2, the last one in flight.
C21_Witness ==
    \E p \in Procs :
        /\ NCalls(p, "topic") = 3 /\ NCalls(p, "shard") = 3
        /\ topic_name[p] = "sensors" /\ shard_index[p] = 2
        /\ inflight[p].kind = "shard"

\* C22: the lookups of a call come one at a time. A lookup that was issued
\* is either the last event, and then it is the one in flight, or its own
\* answer, Err or Ok, follows it at once; an answer directly follows the
\* lookup it answers; no lookup is in flight while the call sleeps, is idle
\* or has ended; and a lookup directly follows either nothing, or the found
\* record of phase 1, or a sleep that itself follows a failure.
C22_OneLookupAtATime ==
    \A p \in Procs :
        /\ \A i \in Idx(p) :
              LET e == log[p][i] IN
              /\ (e.ev = "call" /\ i < Len(log[p])) =>
                    /\ log[p][i + 1].ev \in {"err", "ok"}
                    /\ log[p][i + 1].arg.req = e.arg
              /\ e.ev \in {"err", "ok"} =>
                    /\ i > 1
                    /\ log[p][i - 1] = Event("call", e.arg.req)
              /\ (e.ev = "call" /\ i > 1) =>
                    \/ /\ IsOk(log[p][i - 1], "topic")
                       /\ log[p][i - 1].arg.reply.is_some
                    \/ /\ i > 2
                       /\ log[p][i - 1].ev = "sleep"
                       /\ log[p][i - 2].ev = "err"
        /\ pc[p] \in {"topic_call", "shard_call"} <=> inflight[p] # NoRequest
        /\ inflight[p] # NoRequest =>
              /\ log[p] # <<>>
              /\ LastEvent(p) = Event("call", inflight[p])
        /\ pc[p] \in {"topic_sleep", "shard_sleep"} =>
              log[p] # <<>> /\ LastEvent(p).ev = "sleep"

\* The third shard lookup of a call is in flight, after two shard lookups
\* and a topic lookup that each failed and were slept on.
C22_Witness ==
    \E p \in Procs :
        /\ pc[p] = "shard_call" /\ inflight[p].kind = "shard"
        /\ NErrs(p, "shard") = 2 /\ NSleeps(p, "shard") = 2
        /\ NErrs(p, "topic") = 1 /\ NSleeps(p, "topic") = 1

\* What a call for (name, idx) yields on the catalog c when nothing else runs:
\* the kind of its outcome and, when it returns, the shard id.
AloneOutcome(c, name, idx) ==
    IF \A t \in c.topics : t.name # name
    THEN [kind |-> "missing_topic"]
    ELSE LET t == CHOOSE t \in c.topics : t.name = name
             found == {sh \in c.shards :
                          /\ sh.topic_id = t.id
                          /\ sh.shard_index = [shard_index |-> idx]}
         IN  IF found = {} THEN [kind |-> "missing_shard"]
             ELSE [kind |-> "returned", id |-> (CHOOSE sh \in found : TRUE).id]

\* C23: of two callers whose calls run side by side on one catalog that does
\* not change, each ends as its call would end alone: with the outcome the
\* catalog gives for its own topic_name and shard_index, whatever the other
\* caller asked for and however the steps of the two were interleaved; and
\* while it runs it holds the topic record of its own name only.
C23_ConcurrentCallsIndependent ==
    \A p \in AllProcs :
        /\ pc[p] \in Terminal =>
              LET alone == AloneOutcome(catalog, topic_name[p], shard_index[p]) IN
              /\ result[p].kind = alone.kind
              /\ alone.kind = "returned" => result[p].id = alone.id
        /\ (pc[p] \in {"shard_call", "shard_sleep"}) =>
              topic[p].is_some /\ topic[p].val.name = topic_name[p]

\* Both callers have returned, "r1" the shard of "sensors" and "r2" the shard
\* of "ghost", each after failed attempts in both phases.
C23_Witness ==
    /\ pc["r1"] = "returned" /\ pc["r2"] = "returned"
    /\ topic_name["r1"] = "sensors" /\ topic_name["r2"] = "ghost"
    /\ result["r1"].id # result["r2"].id
    /\ \A p \in AllProcs : NErrs(p, "topic") >= 1 /\ NErrs(p, "shard") >= 1

====
